---------------------------- MODULE Spec2Model ----------------------------
(***************************************************************************)
(* A model of the SARIF viewer panel stores: IndexStore (panel/indexStore) *)
(* and ResultTableStore, with the Table key/click handlers that write the  *)
(* shared selection.                                                       *)
(*                                                                         *)
(* Text that the code lower-cases, splits or searches is a sequence of     *)
(* one-character strings.  A visibility flag ('visible' | false) is the    *)
(* boolean of its truthiness.  An optional field of a result is a field    *)
(* that is absent from its record.                                         *)
(***************************************************************************)
EXTENDS Integers, Sequences, FiniteSets, TLC

\* ------------------------------------------------------------------ bounds

\* Inbound messages delivered in one behaviour.
MaxMsgs == 2

\* ------------------------------------------------------------ text helpers

UpperToLower ==
    [c \in {"A","B","C","E","F","N","O","P","R","S","T","U","W","Z"} |->
        CASE c = "A" -> "a" [] c = "B" -> "b" [] c = "C" -> "c" [] c = "E" -> "e"
          [] c = "F" -> "f" [] c = "N" -> "n" [] c = "O" -> "o" [] c = "P" -> "p"
          [] c = "R" -> "r" [] c = "S" -> "s" [] c = "T" -> "t" [] c = "U" -> "u"
          [] c = "W" -> "w" [] c = "Z" -> "z"]

\* String.prototype.toLowerCase
ToLowerCase(text) ==
    [i \in 1..Len(text) |->
        IF text[i] \in DOMAIN UpperToLower THEN UpperToLower[text[i]] ELSE text[i]]

\* String.prototype.includes
Includes(field, keyword) ==
    \E i \in 0..(Len(field) - Len(keyword)) :
        SubSeq(field, i + 1, i + Len(keyword)) = keyword

IsSpace(c) == c \in {" ", "\t"}

\* keywords.split(/\s+/).filter(part => part): the maximal runs of non-space
\* characters, in order.
RECURSIVE SplitWords(_, _, _)
SplitWords(text, i, word) ==
    IF i > Len(text)
    THEN (IF word = <<>> THEN <<>> ELSE <<word>>)
    ELSE IF IsSpace(text[i])
         THEN (IF word = <<>> THEN <<>> ELSE <<word>>) \o SplitWords(text, i + 1, <<>>)
         ELSE SplitWords(text, i + 1, Append(word, text[i]))

Digit(d) == CASE d = 0 -> "0" [] d = 1 -> "1" [] d = 2 -> "2" [] d = 3 -> "3"
              [] d = 4 -> "4" [] d = 5 -> "5" [] d = 6 -> "6" [] d = 7 -> "7"
              [] d = 8 -> "8" [] d = 9 -> "9"

\* Number.prototype.toString for a natural number.
RECURSIVE NumberToString(_)
NumberToString(n) ==
    IF n < 10 THEN <<Digit(n)>> ELSE NumberToString(n \div 10) \o <<Digit(n % 10)>>

\* JSON.stringify of a ResultId [logUri, runIndex, resultIndex].
JSONStringifyId(id) ==
    <<"[", "\"", id[1], "\"", ",">> \o NumberToString(id[2]) \o <<",">>
        \o NumberToString(id[3]) \o <<"]">>

EmDash == <<"-">>

\* Array.prototype.includes / indexOf on a sequence
SeqIncludes(seq, x) == \E i \in DOMAIN seq : seq[i] = x
IndexOf(seq, x) ==
    IF SeqIncludes(seq, x) THEN CHOOSE i \in DOMAIN seq :
                                  seq[i] = x /\ \A j \in 1..(i - 1) : seq[j] # x
    ELSE 0

RECURSIVE Flat(_)
Flat(seqs) == IF seqs = <<>> THEN <<>> ELSE Head(seqs) \o Flat(Tail(seqs))

\* ------------------------------------------------- documents and results

\* The documents the host can send, by uri.  Each is the outcome of
\* JSON.parse followed by augmentLog: a sequence of runs, each a sequence of
\* results.  A result's optional fields (uri for _uri, relativeUri, message,
\* ruleName, ruleId, startLine, properties) are present or absent; ploc says
\* whether locations[0].physicalLocation exists.  properties lists the
\* property bag in key order: a value is a primitive (kind "text", with its
\* String() form), an object (with its JSON.stringify form) or null.
Uris == {"A", "B"}

ResultA1 ==
    [level |-> <<"e","r","r","o","r">>, baselineState |-> <<"n","e","w">>,
     suppression |-> <<"n","o","t"," ","s","u","p","p","r","e","s","s","e","d">>,
     uri |-> <<"a",".","c">>, ploc |-> TRUE, relativeUri |-> <<"a",".","c">>,
     message |-> <<"b","a","d">>, ruleName |-> <<"f","o","o","b","a","r">>,
     ruleId |-> <<"R","1">>, startLine |-> 12,
     properties |-> << [key |-> "cwe", kind |-> "text", text |-> <<"7","9">>] >>]

ResultA2 ==
    [level |-> <<"w","a","r","n","i","n","g">>,
     baselineState |-> <<"u","n","c","h","a","n","g","e","d">>,
     suppression |-> <<"n","o","t"," ","s","u","p","p","r","e","s","s","e","d">>,
     ploc |-> FALSE, message |-> <<"o","d","d">>, ruleId |-> <<"R","2">>]

ResultB1 ==
    [level |-> <<"n","o","t","e">>, baselineState |-> <<"n","e","w">>,
     suppression |-> <<"n","o","t"," ","s","u","p","p","r","e","s","s","e","d">>,
     uri |-> <<"b",".","c">>, ploc |-> FALSE, relativeUri |-> <<"b",".","c">>,
     message |-> <<"F","o","o">>, ruleId |-> <<"R","2">>, startLine |-> 3,
     properties |-> << [key |-> "tags", kind |-> "object", text |-> <<"[","]">>],
                       [key |-> "File", kind |-> "null", text |-> <<>>],
                       [key |-> "cwe", kind |-> "text", text |-> <<"F","o","o">>] >>]

ResultB2 ==
    [level |-> <<"e","r","r","o","r">>, baselineState |-> <<"u","p","d","a","t","e","d">>,
     suppression |-> <<"s","u","p","p","r","e","s","s","e","d">>,
     uri |-> <<"a",".","c">>, ploc |-> TRUE, relativeUri |-> <<"a",".","c">>,
     ruleName |-> <<"f","o","o","b","a","r">>, ruleId |-> <<"R","1">>, startLine |-> 4,
     properties |-> << [key |-> "constructor", kind |-> "text", text |-> <<"x">>] >>]

LogRuns(uri) ==
    CASE uri = "A" -> << <<ResultA1, ResultA2>> >>
      [] uri = "B" -> << <<ResultB1>>, <<ResultB2>> >>

\* A loaded document (a Log object): the uri the handler stamps on it and the
\* serial number of the inbound message that delivered it, which tells two
\* objects with the same uri apart.
Log(uri, ser) == [uri |-> uri, ser |-> ser]

\* A Result object is named by its document and its place in it; its _id is
\* [log._uri, runIndex, resultIndex], zero-based.
ResultRef(log, run, idx) == [log |-> log, run |-> run, idx |-> idx]
ResultData(r) == LogRuns(r.log.uri)[r.run][r.idx]
ResultId(r) == <<r.log.uri, r.run - 1, r.idx - 1>>

\* result.field ?? default
Get(rec, field, default) == IF field \in DOMAIN rec THEN rec[field] ELSE default
Has(rec, field) == field \in DOMAIN rec

\* ------------------------------------------------------- filter defaults

L_Error == <<"E","r","r","o","r">>
L_Warning == <<"W","a","r","n","i","n","g">>
L_Note == <<"N","o","t","e">>
L_None == <<"N","o","n","e">>
L_New == <<"N","e","w">>
L_Unchanged == <<"U","n","c","h","a","n","g","e","d">>
L_Updated == <<"U","p","d","a","t","e","d">>
L_Absent == <<"A","b","s","e","n","t">>
L_NotSuppressed == <<"N","o","t"," ","S","u","p","p","r","e","s","s","e","d">>
L_Suppressed == <<"S","u","p","p","r","e","s","s","e","d">>

\* shared.filtersRow: the default row filters.
DefaultFiltersRow ==
    [Level |-> [l \in {L_Error, L_Warning, L_Note, L_None} |-> TRUE],
     Baseline |-> [l \in {L_New, L_Unchanged, L_Updated, L_Absent} |-> l # L_Absent],
     Suppression |-> [l \in {L_NotSuppressed, L_Suppressed} |-> l = L_NotSuppressed]]

\* shared.filtersColumn: the default column visibility.
DefaultFiltersColumn ==
    [Columns |-> [c \in {"Line", "File", "Status", "Message", "Baseline", "Suppression", "Rule"}
                    |-> c \in {"Line", "File", "Status", "Message"}]]

\* ------------------------------------------------------ ResultTableStore

Column(name, kind) == [name |-> name, kind |-> kind]

\* The groupName of the two result table stores.
GroupNames == {"File", "Rule"}

columnsPermanent == <<>>

columnsOptional ==
    << Column("Line", "optional"), Column("File", "optional"), Column("Status", "optional"),
       Column("Message", "optional"), Column("Baseline", "optional"),
       Column("Suppression", "optional"), Column("Rule", "optional") >>

dynamicPropertyColumns(s) ==
    [i \in DOMAIN s.dynamicColumns |-> Column(s.dynamicColumns[i], "dynamic")]

columns(s) == columnsPermanent \o columnsOptional \o dynamicPropertyColumns(s)

\* Object.entries(filtersColumn.Columns).filter(([_, state]) => state): the
\* names of the columns flagged visible.
optionalColumnNames(s) ==
    {name \in DOMAIN s.filtersColumn.Columns : s.filtersColumn.Columns[name]}

\* visibleColumns before the custom order is applied.
unorderedColumns(s, groupName) ==
    SelectSeq(columnsPermanent, LAMBDA col : col.name # groupName)
      \o SelectSeq(columnsOptional, LAMBDA col : col.name \in optionalColumnNames(s))
      \o SelectSeq(dynamicPropertyColumns(s), LAMBDA col : col.name \in optionalColumnNames(s))

\* The first loop of visibleColumns: for each name of columnOrder that names
\* a column, the first column of that name.
OrderedFirst(unordered, names, columnOrder) ==
    [i \in DOMAIN SelectSeq(columnOrder, LAMBDA colName : SeqIncludes(names, colName)) |->
        unordered[IndexOf(names,
            SelectSeq(columnOrder, LAMBDA colName : SeqIncludes(names, colName))[i])]]

\* The second loop: the columns the first has not taken.
OrderedRest(unordered, ordered) ==
    ordered \o SelectSeq(unordered, LAMBDA col : ~SeqIncludes(ordered, col))

ApplyColumnOrder(unordered, columnOrder) ==
    IF Len(columnOrder) > 0
    THEN OrderedRest(unordered,
            OrderedFirst(unordered, [i \in DOMAIN unordered |-> unordered[i].name],
                         columnOrder))
    ELSE unordered

\* columns.map(c => c.name)
ColumnNamesOf(cols) == [i \in DOMAIN cols |-> cols[i].name]

\* ResultTableStore.visibleColumns of the store grouped by groupName.
visibleColumns(s, groupName) == ApplyColumnOrder(unorderedColumns(s, groupName), s.columnOrder)

\* The Status column's text for a result.
StatusText(s, r) ==
    LET key == JSONStringifyId(ResultId(r))
        status == IF key \in DOMAIN s.resultStatuses THEN s.resultStatuses[key]
                  ELSE "undefined"
    IN  IF status = "true-positive" THEN <<"T","P">>
        ELSE IF status = "false-positive" THEN <<"F","P">> ELSE EmDash

\* A dynamic column's text for a result: result.properties?.[key].
PropertyText(r, key) ==
    LET d == ResultData(r)
        props == Get(d, "properties", <<>>)
        hits == SelectSeq(props, LAMBDA p : p.key = key)
    IN  IF hits = <<>> THEN EmDash
        ELSE IF hits[1].kind = "null" THEN EmDash ELSE hits[1].text

\* Column.toString(result)
ColumnToString(s, col, r) ==
    LET d == ResultData(r) IN
    IF col.kind = "dynamic" THEN PropertyText(r, col.name)
    ELSE CASE col.name = "Line" ->
                (IF Has(d, "startLine") THEN NumberToString(d.startLine) ELSE EmDash)
           [] col.name = "File" -> Get(d, "relativeUri", <<>>)
           [] col.name = "Status" -> StatusText(s, r)
           [] col.name = "Message" -> Get(d, "message", <<>>)
           [] col.name = "Baseline" -> Get(d, "baselineState", <<>>)
           [] col.name = "Suppression" -> Get(d, "suppression", <<>>)
           [] col.name = "Rule" ->
                Get(d, "ruleName", EmDash) \o <<" ">> \o Get(d, "ruleId", EmDash)

\* mapToList without the lower-casing of the labels.
mapToList_NoLowerCase(record) == {l \in DOMAIN record : record[l]}

\* mapToList keeping the falsy entries instead of the truthy ones.
mapToList_Inverted(record) ==
    {ToLowerCase(label) : label \in {l \in DOMAIN record : ~record[l]}}

\* mapToList: the lower-cased labels of the truthy entries of a record.
mapToList(record) == {ToLowerCase(label) : label \in {l \in DOMAIN record : record[l]}}

filterKeywords(s) == SplitWords(ToLowerCase(s.keywords), 1, <<>>)

isMatch(field, kws) ==
    kws = <<>> \/ \E k \in DOMAIN kws : Includes(field, kws[k])

\* The closure filter returns, applied to one result: the row filters, then
\* columns.some(...) over the columns cols with the keyword tokens kws.
FilterResult(s, r, d, cols, kws) ==
    /\ Get(d, "level", <<>>) \in mapToList(s.filtersRow.Level)
    /\ Get(d, "baselineState", <<>>) \in mapToList(s.filtersRow.Baseline)
    /\ Get(d, "suppression", <<>>) \in mapToList(s.filtersRow.Suppression)
    /\ \E c \in DOMAIN cols :
          isMatch(ToLowerCase(ColumnToString(s, cols[c], r)), kws)

\* ResultTableStore.filter applied to one result.
filter(s, r) == FilterResult(s, r, ResultData(r), columns(s), filterKeywords(s))

\* ------------------------------------------------------------ IndexStore

\* IndexStore.runs: the documents' runs, flattened; each run is named by its
\* document and index.
runs(s) ==
    Flat([i \in DOMAIN s.logs |->
            [j \in DOMAIN LogRuns(s.logs[i].uri) |-> [log |-> s.logs[i], run |-> j]]])

\* IndexStore.results: the runs' results, flattened.
ResultsOfRuns(rs) ==
    Flat([i \in DOMAIN rs |->
            [k \in DOMAIN LogRuns(rs[i].log.uri)[rs[i].run] |->
                ResultRef(rs[i].log, rs[i].run, k)]])

results(s) == ResultsOfRuns(runs(s))

\* shared.findResult(logs, id): the result at [runIndex][resultIndex] of the
\* first document whose uri is the id's, or Undefined.
Undefined == [kind |-> "undefined"]

findResult(s, id) ==
    LET i == CHOOSE i \in DOMAIN s.logs \cup {0} :
                 IF \E k \in DOMAIN s.logs : s.logs[k].uri = id[1]
                 THEN i # 0 /\ s.logs[i].uri = id[1]
                        /\ \A k \in 1..(i - 1) : s.logs[k].uri # id[1]
                 ELSE i = 0
    IN  IF i = 0 THEN Undefined
        ELSE LET rr == LogRuns(id[1]) IN
             IF id[2] + 1 \in DOMAIN rr /\ id[3] + 1 \in DOMAIN rr[id[2] + 1]
             THEN [kind |-> "result", ref |-> ResultRef(s.logs[i], id[2] + 1, id[3] + 1)]
             ELSE Undefined

\* ------------------------------------------------------------------ rows

RowItem(r) == [kind |-> "item", item |-> r]
RowGroup(by, key) == [kind |-> "group", by |-> by, key |-> key]

\* The grouping functions of the two table stores: result._relativeUri for
\* 'File' and the result's rule for 'Rule'; <<>> stands for no key.
groupBy(by, r) ==
    IF by = "File" THEN Get(ResultData(r), "relativeUri", <<>>)
    ELSE Get(ResultData(r), "ruleId", <<>>)

\* TableStore.rows of the store grouped by `by`: the filtered results, each
\* group (in first-seen order of its key) as a Group row followed by its
\* Item rows, a result without a key as a bare Item row.
GroupRows(by, kept, keys) ==
    Flat([i \in DOMAIN kept |->
            IF keys[i] = <<>> THEN << RowItem(kept[i]) >>
            ELSE IF \E j \in 1..(i - 1) : keys[j] = keys[i] THEN <<>>
            ELSE << RowGroup(by, keys[i]) >> \o
                 Flat([k \in DOMAIN kept |->
                         IF keys[k] = keys[i] THEN << RowItem(kept[k]) >> ELSE <<>>])])

RowsOf(by, kept) == GroupRows(by, kept, [i \in DOMAIN kept |-> groupBy(by, kept[i])])

rows(s, by) == RowsOf(by, SelectSeq(results(s), LAMBDA r : filter(s, r)))

\* IndexStore.tabs: the table store of a tab, by its grouping name, or "none".
Tabs == {"Locations", "Rules", "Logs"}
TabStore(tab) ==
    CASE tab = "Locations" -> "File" [] tab = "Rules" -> "Rule" [] tab = "Logs" -> "none"

\* ----------------------------------------------------------------- state

VARIABLES
    logs,            \* IndexStore.logs
    selection,       \* IndexStore.selection: Undefined, a Group row or an Item row
    selectedTab,     \* IndexStore.selectedTab
    banner,          \* IndexStore.banner
    resultsFixed,    \* IndexStore.resultsFixed
    resultStatuses,  \* IndexStore.resultStatuses
    dynamicColumns,  \* IndexStore.dynamicColumns
    columnOrder,     \* IndexStore.columnOrder
    keywords,        \* IndexStore.keywords
    filtersRow,      \* IndexStore.filtersRow
    filtersColumn,   \* IndexStore.filtersColumn
    whenArmed,       \* the constructor's when() for defaultSelection has not fired yet
    fetching,        \* the onMessage calls suspended at `await fetch`, each with its
                     \* message's serial number and the added entries still to ingest
    timers,          \* the pending setTimeout callbacks of basePathSet, oldest first
    active,          \* isActive(): this view is the focused one
    msgCount,        \* inbound messages delivered so far
    effectSer,       \* the highest serial number of a message that has changed the store
    posted,          \* the outbound messages posted by the latest step, in order
    hostBanner,      \* the text of the latest setBanner message, "" before the first
    saved,           \* the state blob the host holds: the one the store was constructed
                     \* from, then the state of the latest 'setState' message
    last             \* what the latest step was: the operation, its message's serial number
                     \* (0 for none), how the call ended, the kind of the selection before
                     \* it, the id of a select message (<<>> for none) and the arguments
                     \* of a call or the status map of a loadResultStatuses message

storeVars == << logs, selection, selectedTab, banner, resultsFixed, resultStatuses,
                dynamicColumns, columnOrder, keywords, filtersRow, filtersColumn,
                whenArmed, fetching, timers >>

vars == << logs, selection, selectedTab, banner, resultsFixed, resultStatuses,
           dynamicColumns, columnOrder, keywords, filtersRow, filtersColumn,
           whenArmed, fetching, timers, active, msgCount, effectSer, posted, saved,
           hostBanner, last >>

\* The store as one value, for the operators that transform it.  selDirty
\* says that the selection box has changed since the autorun last ran.
Store ==
    [logs |-> logs, selection |-> selection, selectedTab |-> selectedTab, banner |-> banner,
     resultsFixed |-> resultsFixed, resultStatuses |-> resultStatuses,
     dynamicColumns |-> dynamicColumns, columnOrder |-> columnOrder, keywords |-> keywords,
     filtersRow |-> filtersRow, filtersColumn |-> filtersColumn, whenArmed |-> whenArmed,
     fetching |-> fetching, timers |-> timers, posted |-> <<>>, selDirty |-> FALSE]

\* The state of the last 'setState' message among msgs, or else old.
LastSetState(msgs, old) ==
    IF \E i \in DOMAIN msgs : msgs[i].command = "setState"
    THEN msgs[CHOOSE i \in DOMAIN msgs :
                 /\ msgs[i].command = "setState"
                 /\ \A j \in DOMAIN msgs : msgs[j].command = "setState" => j <= i].state
    ELSE old

Commit(s) ==
    /\ saved' = LastSetState(s.posted, saved)
    /\ logs' = s.logs
    /\ selection' = s.selection
    /\ selectedTab' = s.selectedTab
    /\ banner' = s.banner
    /\ resultsFixed' = s.resultsFixed
    /\ resultStatuses' = s.resultStatuses
    /\ dynamicColumns' = s.dynamicColumns
    /\ columnOrder' = s.columnOrder
    /\ keywords' = s.keywords
    /\ filtersRow' = s.filtersRow
    /\ filtersColumn' = s.filtersColumn
    /\ whenArmed' = s.whenArmed
    /\ fetching' = s.fetching
    /\ timers' = s.timers
    /\ posted' = s.posted

\* vscode.postMessage
postMessage(s, msg) == [s EXCEPT !.posted = Append(@, msg)]

\* selection.set(row): a box reports a change only for a different value.
SelectionSet(s, row) ==
    [s EXCEPT !.selection = row, !.selDirty = @ \/ row # s.selection]

\* postSelectArtifact without its isActive() check.
postSelectArtifact_NoActiveCheck(s, r) ==
    IF ~ResultData(r).ploc THEN s
    ELSE postMessage(s, [command |-> "select", logUri |-> r.log.uri, id |-> ResultId(r)])

\* postSelectArtifact(result, result.locations?.[0]?.physicalLocation)
postSelectArtifact(s, r) ==
    IF ~active THEN s
    ELSE IF ~ResultData(r).ploc THEN s
    ELSE postMessage(s, [command |-> "select", logUri |-> r.log.uri, id |-> ResultId(r)])

\* The constructor's autorun on the selection; it runs again when the box
\* has changed.
Autorun(s) ==
    IF ~s.selDirty THEN s
    ELSE LET s1 == [s EXCEPT !.selDirty = FALSE] IN
         IF s.selection.kind # "item" THEN s1
         ELSE IF ~Has(ResultData(s.selection.item), "uri") THEN s1
         ELSE postSelectArtifact(s1, s.selection.item)

FirstOrUndefined(items) == IF items = <<>> THEN Undefined ELSE items[1]

\* The effect of the constructor's when(): the first Item row of the rows rs
\* (or undefined) becomes the selection.
DefaultSelect(s, rs) ==
    IF rs = <<>> THEN s
    ELSE SelectionSet([s EXCEPT !.whenArmed = FALSE],
                      FirstOrUndefined(SelectSeq(rs, LAMBDA row : row.kind = "item")))

\* The constructor's when() for defaultSelection: it fires once, when the
\* 'File' store has rows.
WhenDefaultSelection(s) ==
    IF ~s.whenArmed THEN s ELSE DefaultSelect(s, rows(s, "File"))

\* The pending reactions, run when the outermost batch ends.
Reactions(s) == Autorun(WhenDefaultSelection(s))

\* The observers of the filter maps doing nothing.
setState_Absent(s) == s

\* The constructor's setState observer of the filter maps.
setState(s) ==
    postMessage(s, [command |-> "setState",
                    state |-> [filtersRow |-> s.filtersRow, filtersColumn |-> s.filtersColumn]])

\* ------------------------------------------------- the document list

RECURSIVE Distinct(_)
Distinct(seq) ==
    IF seq = <<>> THEN <<>>
    ELSE LET front == Distinct(SubSeq(seq, 1, Len(seq) - 1))
             x == seq[Len(seq)]
         IN  IF SeqIncludes(front, x) THEN front ELSE Append(front, x)

\* extractDynamicColumns' propertyKeys: the keys of the document's results, 'tags'
\* left out, in first-seen order.
PropertyKeys(uri) ==
    LET rr == Flat(LogRuns(uri))
        keysOf(d) == LET props == Get(d, "properties", <<>>)
                     IN  [i \in DOMAIN props |-> props[i].key]
        keys == Flat([i \in DOMAIN rr |-> keysOf(rr[i])])
    IN  Distinct(SelectSeq(keys, LAMBDA key : key # "tags"))

\* The names every plain object inherits from Object.prototype (some of them).
ObjectPrototypeKeys == {"constructor", "toString", "valueOf", "hasOwnProperty"}

\* Whether obj[key] is truthy, for a map obj of flags: an own entry gives its
\* flag, a name inherited from Object.prototype gives a function (truthy), any
\* other name undefined.
Truthy(obj, key) ==
    IF key \in DOMAIN obj THEN obj[key] ELSE key \in ObjectPrototypeKeys

\* One round of extractDynamicColumns' propertyKeys.forEach.  Writing false
\* over an entry that is already false is no change; adding the entry is one,
\* and the observer of filtersColumn.Columns posts the state.
AddDynamicColumn(s, key) ==
    IF SeqIncludes(s.dynamicColumns, key) THEN s
    ELSE LET s1 == [s EXCEPT !.dynamicColumns = Append(@, key)]
             cols == s.filtersColumn.Columns
         IN  IF Truthy(cols, key) \/ key \in DOMAIN cols THEN s1
             ELSE setState([s1 EXCEPT !.filtersColumn =
                              [Columns |-> [c \in DOMAIN cols \cup {key} |->
                                              IF c = key THEN FALSE ELSE cols[c]]]])

RECURSIVE AddDynamicColumns(_, _)
AddDynamicColumns(s, keys) ==
    IF keys = <<>> THEN s
    ELSE AddDynamicColumns(AddDynamicColumn(s, Head(keys)), Tail(keys))

\* IndexStore.extractDynamicColumns(log)
extractDynamicColumns(s, log) == AddDynamicColumns(s, PropertyKeys(log.uri))

\* The observer of the document list without its effect.
ObserveLogs_Absent(s) == s

\* The constructor's observe(this.logs, ...)
ObserveLogs(s) == IF Len(s.logs) > 0 THEN s ELSE SelectionSet(s, Undefined)

\* this.logs.push(log): the interceptor, the change, the observer.
LogsPush(s, log) ==
    LET s1 == extractDynamicColumns(s, log) IN
    ObserveLogs([s1 EXCEPT !.logs = Append(@, log)])

\* this.logs.splice(i, 1)
LogsSplice(s, i) ==
    ObserveLogs([s EXCEPT !.logs = SubSeq(@, 1, i - 1) \o SubSeq(@, i + 1, Len(@))])

\* onMessage, spliceLogs: the loop over event.data.removed.
RECURSIVE RemoveLoop(_, _)
RemoveLoop(s, removed) ==
    IF removed = <<>> THEN s
    ELSE LET uris == [k \in DOMAIN s.logs |-> s.logs[k].uri]
             i == IndexOf(uris, Head(removed))
         IN  RemoveLoop(IF i >= 1 THEN LogsSplice(s, i) ELSE s, Tail(removed))

\* onMessage, spliceLogs: the loop over event.data.added, from the entry at the
\* head of `added`.  An entry without text suspends the call at `await fetch`
\* unless its document has arrived (`arrived`).  Up to the first await the
\* call runs inside the action, whose end runs the reactions; after it every
\* change runs them at once (`batched` false).
AfterChange(s, batched) == IF batched THEN s ELSE Reactions(s)

RECURSIVE AddLoop(_, _, _, _, _)
AddLoop(s, added, ser, arrived, batched) ==
    IF added = <<>> THEN s
    ELSE IF ~Head(added).text /\ ~arrived
         THEN [s EXCEPT !.fetching = @ \cup {[ser |-> ser, rest |-> added]}]
         ELSE AddLoop(AfterChange(LogsPush(s, Log(Head(added).uri, ser)), batched),
                      Tail(added), ser, FALSE, batched)

\* mobx array.remove(value): the first occurrence goes.
ArrayRemove(seq, x) ==
    LET i == IndexOf(seq, x) IN
    IF i = 0 THEN seq ELSE SubSeq(seq, 1, i - 1) \o SubSeq(seq, i + 1, Len(seq))

RECURSIVE FixedRemoveLoop(_, _)
FixedRemoveLoop(fixed, removed) ==
    IF removed = <<>> THEN fixed
    ELSE FixedRemoveLoop(ArrayRemove(fixed, Head(removed)), Tail(removed))

\* TableStore.select(result): the result's Item row becomes the selection.
TableStoreSelect(s, r) == SelectionSet(s, RowItem(r))

BasePathNotice == "Base path updated. Paths should now resolve."

\* The select branch taking an unresolved id for a deselect instead of throwing.
SelectFound_DeselectUnresolved(s, found) ==
    IF found = Undefined THEN [store |-> SelectionSet(s, Undefined), outcome |-> "error"]
    ELSE IF TabStore(s.selectedTab) = "none" THEN [store |-> s, outcome |-> "ok"]
    ELSE [store |-> TableStoreSelect(s, found.ref), outcome |-> "ok"]

\* onMessage's select branch after findResult: a throw for no result, else
\* the selected tab's store, if it has one, selects the result.
SelectFound(s, found) ==
    IF found = Undefined THEN [store |-> s, outcome |-> "error"]
    ELSE IF TabStore(s.selectedTab) = "none" THEN [store |-> s, outcome |-> "ok"]
    ELSE [store |-> TableStoreSelect(s, found.ref), outcome |-> "ok"]

\* How a call that has run to its end or to an await has ended.
Ended(s, ser) ==
    [store |-> s,
     outcome |-> IF \E h \in s.fetching : h.ser = ser THEN "suspended" ELSE "ok"]

\* IndexStore.onMessage up to its first await, for the message `m` with serial
\* number ser: the store it leaves and how the call ends there ("ok", "error"
\* for a throw, "suspended" at a fetch, "ignored" for a foreign message).
onMessage(s, m, ser) ==
    IF ~Has(m, "command") THEN [store |-> s, outcome |-> "ignored"]
    ELSE CASE m.command = "select" ->
                IF ~Has(m, "id")
                THEN [store |-> SelectionSet(s, Undefined), outcome |-> "ok"]
                ELSE SelectFound(s, findResult(s, m.id))
           [] m.command = "spliceLogs" ->
                Ended(AddLoop(RemoveLoop(s, m.removed), m.added, ser, FALSE, TRUE), ser)
           [] m.command = "spliceResultsFixed" ->
                [store |-> [s EXCEPT !.resultsFixed =
                                FixedRemoveLoop(@, m.removed) \o m.added],
                 outcome |-> "ok"]
           [] m.command = "setBanner" ->
                [store |-> [s EXCEPT !.banner = Get(m, "text", "")], outcome |-> "ok"]
           [] m.command = "basePathSet" ->
                [store |-> [s EXCEPT !.banner = BasePathNotice,
                                     !.timers = Append(@, s.banner)],
                 outcome |-> "ok"]
           [] m.command = "loadResultStatuses" ->
                [store |-> [s EXCEPT !.resultStatuses = Get(m, "resultStatuses", <<>>)],
                 outcome |-> "ok"]
           [] OTHER -> [store |-> s, outcome |-> "ok"]

\* ---------------------------------------------------------------- inputs

\* What the host may send.  A spliceLogs entry carries its text or must be
\* fetched; a select carries an id or none.
Entry(uri, text) == [uri |-> uri, text |-> text]

AddedLists ==
    { <<>>, <<Entry("A", TRUE)>>, <<Entry("A", FALSE)>>, <<Entry("B", TRUE)>>,
      <<Entry("B", FALSE)>>, <<Entry("A", FALSE), Entry("B", TRUE)>> }

RemovedLists == { <<>>, <<"A">>, <<"A", "B">> }

SelectIds == { <<"A", 0, 0>>, <<"A", 0, 1>>, <<"B", 0, 0>>, <<"B", 1, 0>>, <<"A", 0, 2>> }

FixedLists == { <<>>, << JSONStringifyId(<<"A", 0, 0>>) >> }

StatusMaps ==
    { <<>>, [k \in {JSONStringifyId(<<"A", 0, 0>>)} |-> "false-positive"] }

Messages ==
    { [command |-> "select"] }
    \cup { [command |-> "select", id |-> id] : id \in SelectIds }
    \cup { [command |-> "spliceLogs", removed |-> r, added |-> a] :
             r \in RemovedLists, a \in AddedLists }
    \cup { [command |-> "spliceResultsFixed", removed |-> r, added |-> a] :
             r \in FixedLists, a \in FixedLists }
    \cup { [command |-> "setBanner"], [command |-> "setBanner", text |-> "scanning"] }
    \cup { [command |-> "basePathSet"] }
    \cup { [command |-> "loadResultStatuses", resultStatuses |-> st] : st \in StatusMaps }
    \cup { [source |-> "react-devtools"] }

\* The state blobs a store may be constructed from.
PersistedStates ==
    { [filtersRow |-> DefaultFiltersRow, filtersColumn |-> DefaultFiltersColumn] }

\* ------------------------------------------------------------- actions

\* The record of a step that handles no inbound message.
Step(op) ==
    [op |-> op, ser |-> 0, outcome |-> "ok", sel |-> selection.kind, id |-> <<>>,
     args |-> <<>>]

\* The record of a call made with the arguments args.
Call(op, args) == [Step(op) EXCEPT !.args = args]

\* The constructor with the merge of the column filters turned round: the
\* defaults win over the stored flags.
Constructed_DefaultsWin(state, defaultSelection) ==
    [logs |-> <<>>, selection |-> Undefined, selectedTab |-> "Locations", banner |-> "",
     resultsFixed |-> <<>>, resultStatuses |-> <<>>, dynamicColumns |-> <<>>,
     columnOrder |-> <<>>, keywords |-> <<>>,
     filtersRow |-> state.filtersRow,
     filtersColumn |->
        [Columns |->
           [c \in DOMAIN DefaultFiltersColumn.Columns
                     \cup DOMAIN state.filtersColumn.Columns |->
              IF c \in DOMAIN DefaultFiltersColumn.Columns
              THEN DefaultFiltersColumn.Columns[c]
              ELSE state.filtersColumn.Columns[c]]],
     whenArmed |-> defaultSelection, fetching |-> {}, timers |-> <<>>,
     posted |-> <<>>, selDirty |-> FALSE]

\* The IndexStore constructor: the store it leaves.
Constructed(state, defaultSelection) ==
    [logs |-> <<>>, selection |-> Undefined, selectedTab |-> "Locations", banner |-> "",
     resultsFixed |-> <<>>, resultStatuses |-> <<>>, dynamicColumns |-> <<>>,
     columnOrder |-> <<>>, keywords |-> <<>>,
     filtersRow |-> state.filtersRow,
     filtersColumn |->
        [Columns |->
           [c \in DOMAIN DefaultFiltersColumn.Columns
                     \cup DOMAIN state.filtersColumn.Columns |->
              IF c \in DOMAIN state.filtersColumn.Columns
              THEN state.filtersColumn.Columns[c]
              ELSE DefaultFiltersColumn.Columns[c]]],
     whenArmed |-> defaultSelection, fetching |-> {}, timers |-> <<>>,
     posted |-> <<>>, selDirty |-> FALSE]

InitStore(s) ==
    /\ logs = s.logs
    /\ selection = s.selection
    /\ selectedTab = s.selectedTab
    /\ banner = s.banner
    /\ resultsFixed = s.resultsFixed
    /\ resultStatuses = s.resultStatuses
    /\ dynamicColumns = s.dynamicColumns
    /\ columnOrder = s.columnOrder
    /\ keywords = s.keywords
    /\ filtersRow = s.filtersRow
    /\ filtersColumn = s.filtersColumn
    /\ whenArmed = s.whenArmed
    /\ fetching = s.fetching
    /\ timers = s.timers
    /\ posted = <<>>
    /\ hostBanner = ""

Init ==
    /\ \E state \in PersistedStates, defaultSelection \in BOOLEAN :
          InitStore(Constructed(state, defaultSelection)) /\ saved = state
    /\ active \in BOOLEAN
    /\ msgCount = 0
    /\ effectSer = 0
    /\ last = [op |-> "init", ser |-> 0, outcome |-> "ok", sel |-> "undefined", id |-> <<>>,
               args |-> <<>>]

\* Whether the store s differs from the current one in what an inbound
\* message is there to change.
Effect(s) ==
    \/ s.logs # logs
    \/ s.selection # selection
    \/ s.resultsFixed # resultsFixed
    \/ s.banner # banner
    \/ s.resultStatuses # resultStatuses

Max(a, b) == IF a >= b THEN a ELSE b
Min(a, b) == IF a <= b THEN a ELSE b

\* The end of a step of the call for the message with serial number ser: the
\* store s is the new state.
EndCall(s, op, ser, outcome, id, args) ==
    /\ Commit(s)
    /\ effectSer' = IF Effect(s) THEN Max(effectSer, ser) ELSE effectSer
    /\ last' = [op |-> op, ser |-> ser, outcome |-> outcome, sel |-> selection.kind,
                id |-> id, args |-> args]

DeliverCall(m, ser, call) ==
    EndCall(Reactions(call.store), Get(m, "command", "foreign"), ser, call.outcome,
            Get(m, "id", <<>>),
            IF Has(m, "resultStatuses") THEN << m.resultStatuses >> ELSE <<>>)

\* The window's 'message' event calls onMessage(m); the call runs to its first
\* await, and the action's end runs the reactions.
Deliver(m) ==
    /\ msgCount < MaxMsgs
    /\ DeliverCall(m, msgCount + 1, onMessage(Store, m, msgCount + 1))
    /\ msgCount' = msgCount + 1
    /\ hostBanner' = IF Get(m, "command", "foreign") = "setBanner"
                     THEN Get(m, "text", "") ELSE hostBanner
    /\ UNCHANGED active

ResumeCall(call, ser) == EndCall(call.store, "fetched", ser, call.outcome, <<>>, <<>>)

\* A fetched document arrives: the suspended onMessage call goes on from
\* `log._uri = uri`.
FetchDone(h) ==
    /\ h \in fetching
    /\ ResumeCall(Ended(AddLoop([Store EXCEPT !.fetching = @ \ {h}], h.rest, h.ser,
                                TRUE, FALSE), h.ser), h.ser)
    /\ UNCHANGED << active, msgCount, hostBanner >>

\* The setTimeout callback of basePathSet: this.banner = oldBanner.
TimerFire ==
    /\ timers # <<>>
    /\ banner' = Head(timers)
    /\ timers' = Tail(timers)
    /\ posted' = <<>>
    /\ last' = Step("timer")
    /\ UNCHANGED << logs, selection, selectedTab, resultsFixed, resultStatuses,
                    dynamicColumns, columnOrder, keywords, filtersRow, filtersColumn,
                    whenArmed, fetching, active, msgCount, effectSer, saved,
                    hostBanner >>

\* Table: a click on a row of the selected tab's table.
ClickRow(row) ==
    /\ Commit(Reactions(SelectionSet(Store, row)))
    /\ last' = Step("click")
    /\ UNCHANGED << active, msgCount, effectSer, hostBanner >>

\* The user picks a tab: selectedTab.set(tab).
SelectTab(tab) ==
    /\ tab # selectedTab
    /\ selectedTab' = tab
    /\ posted' = <<>>
    /\ last' = Step("tab")
    /\ UNCHANGED << logs, selection, banner, resultsFixed, resultStatuses,
                    dynamicColumns, columnOrder, keywords, filtersRow, filtersColumn,
                    whenArmed, fetching, timers, active, msgCount, effectSer, saved,
                    hostBanner >>

\* The view gains or loses the focus.
SetActive(b) ==
    /\ b # active
    /\ active' = b
    /\ posted' = <<>>
    /\ last' = Step("focus")
    /\ UNCHANGED << storeVars, msgCount, effectSer, saved,
                    hostBanner >>

\* The rows the selected tab shows.
Range(seq) == {seq[i] : i \in DOMAIN seq}

ShownRows ==
    IF TabStore(selectedTab) = "none" THEN {} ELSE Range(rows(Store, TabStore(selectedTab)))

Next ==
    \/ \E m \in Messages : Deliver(m)
    \/ \E h \in fetching : FetchDone(h)
    \/ TimerFire
    \/ \E row \in ShownRows : ClickRow(row)
    \/ \E tab \in Tabs : SelectTab(tab)
    \/ \E b \in BOOLEAN : SetActive(b)

Spec == Init /\ [][Next]_vars

\* ------------------------------------------------------ column order

\* The undefined that moveColumn puts into the order when it has removed no
\* name; no column has this name.
UndefinedName == "(undefined)"

\* Array.prototype.splice: where a start index lands in an array of len elements.
SpliceStart(len, start) == IF start < 0 THEN Max(len + start, 0) ELSE Min(start, len)

\* What seq.splice(start, 1) removes, and what it leaves.
SpliceRemoved(seq, st) == IF st < Len(seq) THEN << seq[st + 1] >> ELSE <<>>
SpliceRest(seq, st) == SubSeq(seq, 1, st) \o SubSeq(seq, st + 2, Len(seq))

\* seq after seq.splice(start, 0, x).
SpliceInsert(seq, st, x) == SubSeq(seq, 1, st) \o << x >> \o SubSeq(seq, st + 1, Len(seq))

\* const [moved] = columns.splice(fromIndex, 1); columns.splice(toIndex, 0, moved)
MovedNames(rest, removed, toIndex) ==
    SpliceInsert(rest, SpliceStart(Len(rest), toIndex),
                 IF removed = <<>> THEN UndefinedName ELSE removed[1])

MoveName(names, st, toIndex) ==
    MovedNames(SpliceRest(names, st), SpliceRemoved(names, st), toIndex)

\* IndexStore.setColumnOrder
setColumnOrder(s, order) == [s EXCEPT !.columnOrder = order]

\* ResultTableStore.moveColumn of the store grouped by groupName.
moveColumnNames(s, names, fromIndex, toIndex) ==
    setColumnOrder(s, MoveName(names, SpliceStart(Len(names), fromIndex), toIndex))

moveColumn(s, groupName, fromIndex, toIndex) ==
    moveColumnNames(s, ColumnNamesOf(visibleColumns(s, groupName)), fromIndex, toIndex)

\* The longest column order from which the model still moves a column.
MaxOrderLen == 5

\* The indices moveColumn is called with, in range and out of range, and the
\* columns the user shows and hides meanwhile.
MaxIndex == 4
MoveIndices == -1 .. MaxIndex
MovedColumns == {"File", "cwe"}

\* A call of moveColumn(from, to) on the table store grouped by groupName.
MoveColumn(groupName, fromIndex, toIndex) ==
    /\ Len(columnOrder) <= MaxOrderLen
    /\ Commit(Reactions(moveColumn(Store, groupName, fromIndex, toIndex)))
    /\ last' = Call("moveColumn", << groupName, fromIndex, toIndex >>)
    /\ UNCHANGED << active, msgCount, effectSer, hostBanner >>

\* ------------------------------------------------ the filters' actions

KeywordInputs ==
    { <<>>, <<" ">>, <<"f","o","o">>, <<"F","O","O"," ","z">>, <<"b","a","d">> }

\* The row filters in the key order of the maps.
RowFilterKeys ==
    << <<"Level", L_Error>>, <<"Level", L_Warning>>, <<"Level", L_Note>>, <<"Level", L_None>>,
       <<"Baseline", L_New>>, <<"Baseline", L_Unchanged>>, <<"Baseline", L_Updated>>,
       <<"Baseline", L_Absent>>,
       <<"Suppression", L_NotSuppressed>>, <<"Suppression", L_Suppressed>> >>

\* The row filters and the columns the filter specification toggles one by one.
ToggledRowFilters ==
    { <<"Level", L_Error>>, <<"Level", L_Warning>>, <<"Baseline", L_New>>,
      <<"Baseline", L_Absent>>, <<"Suppression", L_NotSuppressed>>,
      <<"Suppression", L_Suppressed>> }

ToggledColumns == {"Message", "Rule", "cwe"}

\* this.filtersRow[column][value] = flag, with the observer of that map.
SetRowFilter(s, key, flag) ==
    IF s.filtersRow[key[1]][key[2]] = flag THEN s
    ELSE setState([s EXCEPT !.filtersRow[key[1]][key[2]] = flag])

RECURSIVE ShowAll(_, _)
ShowAll(s, keys) ==
    IF keys = <<>> THEN s ELSE ShowAll(SetRowFilter(s, Head(keys), TRUE), Tail(keys))

\* IndexStore.clearFilters
clearFilters(s) ==
    ShowAll([s EXCEPT !.keywords = <<>>],
            SelectSeq(RowFilterKeys,
                      LAMBDA key : key[1] \in DOMAIN s.filtersRow
                                     /\ key[2] \in DOMAIN s.filtersRow[key[1]]))

\* The store after the documents A and B have been ingested from their text.
Loaded ==
    LET s0 == Constructed(CHOOSE state \in PersistedStates : TRUE, FALSE)
        m == [command |-> "spliceLogs", removed |-> <<>>,
              added |-> <<Entry("A", TRUE), Entry("B", TRUE)>>]
    IN  Reactions(onMessage(s0, m, 1).store)

InitFilter ==
    /\ \E kw \in KeywordInputs :
          InitStore([Loaded EXCEPT !.keywords = kw])
    /\ saved = LastSetState(Loaded.posted, CHOOSE state \in PersistedStates : TRUE)
    /\ active = FALSE
    /\ msgCount = 1
    /\ effectSer = 1
    /\ last = [op |-> "init", ser |-> 0, outcome |-> "ok", sel |-> "undefined", id |-> <<>>,
               args |-> <<>>]

\* The user flips a row filter.
ToggleRowFilter(key) ==
    /\ key[1] \in DOMAIN filtersRow /\ key[2] \in DOMAIN filtersRow[key[1]]
    /\ Commit(Reactions(SetRowFilter(Store, key, ~filtersRow[key[1]][key[2]])))
    /\ last' = Step("toggleRow")
    /\ UNCHANGED << active, msgCount, effectSer, hostBanner >>

\* The user flips a column's visibility.
ToggleColumn(name) ==
    /\ name \in DOMAIN filtersColumn.Columns
    /\ Commit(Reactions(setState([Store EXCEPT !.filtersColumn.Columns[name] = ~@])))
    /\ last' = Step("toggleColumn")
    /\ UNCHANGED << active, msgCount, effectSer, hostBanner >>

\* The user edits the keywords.
SetKeywords(kw) ==
    /\ kw # keywords
    /\ Commit(Reactions([Store EXCEPT !.keywords = kw]))
    /\ last' = Step("keywords")
    /\ UNCHANGED << active, msgCount, effectSer, hostBanner >>

\* The user clears the filters.
ClearFilters ==
    /\ Commit(Reactions(clearFilters(Store)))
    /\ last' = Step("clearFilters")
    /\ UNCHANGED << active, msgCount, effectSer, hostBanner >>

NextFilter ==
    \/ \E key \in ToggledRowFilters : ToggleRowFilter(key)
    \/ \E name \in ToggledColumns : ToggleColumn(name)
    \/ \E kw \in KeywordInputs : SetKeywords(kw)
    \/ ClearFilters

SpecFilter == InitFilter /\ [][NextFilter]_vars

\* The results of the store s that pass the filter of a table store, in order.
FilteredOf(s) == SelectSeq(results(s), LAMBDA r : filter(s, r))

Filtered == FilteredOf(Store)

\* ------------------------------------------- the column specification

\* The store with the documents A and B loaded, whose columns the user shows,
\* hides and moves.
InitColumns ==
    /\ InitStore(Loaded)
    /\ saved = LastSetState(Loaded.posted, CHOOSE state \in PersistedStates : TRUE)
    /\ active = FALSE
    /\ msgCount = 1
    /\ effectSer = 1
    /\ last = Call("init", <<>>)

NextColumns ==
    \/ \E name \in MovedColumns : ToggleColumn(name)
    \/ \E groupName \in GroupNames, fromIndex \in MoveIndices, toIndex \in MoveIndices :
          MoveColumn(groupName, fromIndex, toIndex)

SpecColumns == InitColumns /\ [][NextColumns]_vars

\* ------------------------------------------- the status specification

\* IndexStore.setResultStatus without its message to the host.
setResultStatus_Silent(s, resultId, status) ==
    [s EXCEPT !.resultStatuses =
        [k \in DOMAIN s.resultStatuses \cup {resultId} |->
            IF k = resultId THEN status ELSE s.resultStatuses[k]]]

\* IndexStore.setResultStatus
setResultStatus(s, resultId, status) ==
    postMessage([s EXCEPT !.resultStatuses =
                    [k \in DOMAIN s.resultStatuses \cup {resultId} |->
                        IF k = resultId THEN status ELSE s.resultStatuses[k]]],
                [command |-> "setResultStatus", resultId |-> resultId, status |-> status])

\* IndexStore.getResultStatus
getResultStatus(s, resultId) ==
    IF resultId \in DOMAIN s.resultStatuses THEN s.resultStatuses[resultId]
    ELSE "unchecked"

ResultStatus == {"unchecked", "true-positive", "false-positive"}

\* The identities the user sets a status for, and all those asked about.
SetIds == {JSONStringifyId(<<"A", 0, 0>>), JSONStringifyId(<<"A", 0, 1>>)}
AskedIds == SetIds \cup {JSONStringifyId(<<"B", 0, 0>>)}

\* The loadResultStatuses messages of the host: with a map, or with none.
StatusMessages ==
    { [command |-> "loadResultStatuses", resultStatuses |-> st] : st \in StatusMaps }
    \cup { [command |-> "loadResultStatuses"] }

\* Messages of the host that are not about statuses.
BystanderMessages ==
    { [command |-> "setBanner", text |-> "scanning"],
      [command |-> "select", id |-> <<"A", 0, 0>>] }

\* The user marks a result.
SetResultStatus(resultId, status) ==
    /\ Commit(Reactions(setResultStatus(Store, resultId, status)))
    /\ last' = Call("setResultStatus", << resultId, status >>)
    /\ UNCHANGED << active, msgCount, effectSer, hostBanner >>

InitStatus ==
    /\ InitStore(Loaded)
    /\ saved = LastSetState(Loaded.posted, CHOOSE state \in PersistedStates : TRUE)
    /\ active \in BOOLEAN
    /\ msgCount = 1
    /\ effectSer = 1
    /\ last = Call("init", <<>>)

NextStatus ==
    \/ \E resultId \in SetIds, status \in ResultStatus : SetResultStatus(resultId, status)
    \/ \E m \in StatusMessages \cup BystanderMessages : Deliver(m)

SpecStatus == InitStatus /\ [][NextStatus]_vars

\* -------------------------------------- the persistence specification

\* A state blob written by an older build: no 'None' level yet, and only the
\* columns Baseline, Suppression and Rule, Rule having been shown.
OlderState ==
    [filtersRow |->
        [DefaultFiltersRow EXCEPT
            !.Level = [l \in {L_Error, L_Warning, L_Note} |-> TRUE]],
     filtersColumn |->
        [Columns |-> [c \in {"Baseline", "Suppression", "Rule"} |-> c = "Rule"]]]

\* The state blobs the host may hold when the view is first opened.
RestoredStates == PersistedStates \cup {OlderState}

\* The filters the user flips and the documents the host sends meanwhile.
PersistRowFilters == { <<"Level", L_Error>>, <<"Suppression", L_Suppressed>> }
PersistColumns == {"Rule", "cwe"}
PersistMessages ==
    { [command |-> "spliceLogs", removed |-> <<>>, added |-> << Entry(uri, TRUE) >>] :
         uri \in Uris }

\* The view is closed and opened again: a new store is constructed from the
\* state the host holds.
Restart ==
    /\ Commit(Constructed(saved, FALSE))
    /\ last' = Call("restart", <<>>)
    /\ UNCHANGED << active, msgCount, effectSer, hostBanner >>

InitPersist ==
    /\ \E state \in RestoredStates : InitStore(Constructed(state, FALSE)) /\ saved = state
    /\ active = FALSE
    /\ msgCount = 0
    /\ effectSer = 0
    /\ last = Call("init", <<>>)

NextPersist ==
    \/ \E key \in PersistRowFilters : ToggleRowFilter(key)
    \/ \E name \in PersistColumns : ToggleColumn(name)
    \/ ClearFilters
    \/ \E m \in PersistMessages : Deliver(m)
    \/ Restart

SpecPersist == InitPersist /\ [][NextPersist]_vars

\* ------------------------------------------------------- keyboard

\* rows[i] of a JavaScript array, i counted from 0: undefined outside the array.
RowAt(rws, i) == IF i >= 0 /\ i < Len(rws) THEN rws[i + 1] ELSE Undefined

\* Table.onKeyDown with ArrowDown's handler lacking its `?? rows[index]`.
onKeyDown_NoFallback(s, rws, index, key) ==
    CASE key = "ArrowUp" ->
           SelectionSet(s, IF RowAt(rws, index - 1) # Undefined THEN RowAt(rws, index - 1)
                           ELSE IF RowAt(rws, index) # Undefined THEN RowAt(rws, index)
                           ELSE RowAt(rws, 0))
      [] key = "ArrowDown" -> SelectionSet(s, RowAt(rws, index + 1))
      [] key = "Escape" -> SelectionSet(s, Undefined)
      [] OTHER -> s

\* Table.onKeyDown on the rows rws, index being rows.indexOf(selection.get()):
\* the handler of the key, if it has one, runs.
onKeyDown(s, rws, index, key) ==
    CASE key = "ArrowUp" ->
           SelectionSet(s, IF RowAt(rws, index - 1) # Undefined THEN RowAt(rws, index - 1)
                           ELSE IF RowAt(rws, index) # Undefined THEN RowAt(rws, index)
                           ELSE RowAt(rws, 0))
      [] key = "ArrowDown" ->
           SelectionSet(s, IF RowAt(rws, index + 1) # Undefined THEN RowAt(rws, index + 1)
                           ELSE RowAt(rws, index))
      [] key = "Escape" -> SelectionSet(s, Undefined)
      [] OTHER -> s

\* The keys the user presses in the table body.
Keys == {"ArrowUp", "ArrowDown", "Escape", "Enter"}

\* A key goes down in the body of the selected tab's table.
KeyDown(key) ==
    /\ TabStore(selectedTab) # "none"
    /\ Commit(Reactions(onKeyDown(Store, rows(Store, TabStore(selectedTab)),
                                  IndexOf(rows(Store, TabStore(selectedTab)), selection) - 1,
                                  key)))
    /\ last' = Call("key", << key >>)
    /\ UNCHANGED << active, msgCount, effectSer, hostBanner >>

InitKeys ==
    /\ InitStore(Loaded)
    /\ saved = LastSetState(Loaded.posted, CHOOSE state \in PersistedStates : TRUE)
    /\ active \in BOOLEAN
    /\ msgCount = 1
    /\ effectSer = 1
    /\ last = [op |-> "init", ser |-> 0, outcome |-> "ok", sel |-> "undefined", id |-> <<>>,
               args |-> <<>>]

NextKeys ==
    \/ \E key \in Keys : KeyDown(key)
    \/ \E row \in ShownRows : ClickRow(row)
    \/ \E tab \in Tabs : SelectTab(tab)
    \/ \E kw \in KeywordInputs : SetKeywords(kw)

SpecKeys == InitKeys /\ [][NextKeys]_vars

\* ------------------------------------------ the fixed-results specification

\* ResultTableStore.isLineThrough
isLineThrough(s, r) == SeqIncludes(s.resultsFixed, JSONStringifyId(ResultId(r)))

\* The lists of a spliceResultsFixed message: JSON strings of result ids.
FixedIdLists ==
    { <<>>, << JSONStringifyId(<<"A", 0, 0>>) >>, << JSONStringifyId(<<"B", 1, 0>>) >>,
      << JSONStringifyId(<<"A", 0, 0>>), JSONStringifyId(<<"B", 1, 0>>) >> }

\* The inbound messages of this specification, the one that loads the
\* documents included.
MaxFixedMsgs == 4

\* The host sends spliceResultsFixed with the lists removed and added.
SpliceResultsFixed(removed, added) ==
    /\ msgCount < MaxFixedMsgs
    /\ EndCall(Reactions(onMessage(Store, [command |-> "spliceResultsFixed",
                                           removed |-> removed, added |-> added],
                                   msgCount + 1).store),
               "spliceResultsFixed", msgCount + 1, "ok", <<>>, << removed, added >>)
    /\ msgCount' = msgCount + 1
    /\ UNCHANGED << active, hostBanner >>

InitFixed ==
    /\ InitStore(Loaded)
    /\ saved = LastSetState(Loaded.posted, CHOOSE state \in PersistedStates : TRUE)
    /\ active = FALSE
    /\ msgCount = 1
    /\ effectSer = 1
    /\ last = Call("init", <<>>)

NextFixed == \E removed \in FixedIdLists, added \in FixedIdLists :
                SpliceResultsFixed(removed, added)

SpecFixed == InitFixed /\ [][NextFixed]_vars

\* ================================================================ claims

PostedSelect == \E i \in DOMAIN posted : posted[i].command = "select"

\* C1: whenever a change of the document list leaves it empty, the selection
\* is undefined afterwards, whatever it was before.
C1_EmptyListClearsSelection ==
    [][(logs' # logs /\ logs' = <<>>) => selection' = Undefined]_vars

\* A spliceLogs has emptied the list while an Item row was selected.
C1_Witness ==
    /\ last.op = "spliceLogs"
    /\ last.sel = "item"
    /\ logs = <<>>
    /\ selection = Undefined

\* C2: handling an inbound 'select' never posts an outbound 'select', whether
\* the view is active or not.
C2_InboundSelectPostsNothing == last.op = "select" => ~PostedSelect

\* C3: an outbound 'select' is posted only by a step that changes the
\* selection to an Item row whose result has a uri and a first physical
\* location, and only while the view is active.
C3_SelectPostedOnlyFor ==
    [][(\E i \in DOMAIN posted' : posted'[i].command = "select") =>
          /\ selection' # selection
          /\ selection'.kind = "item"
          /\ Has(ResultData(selection'.item), "uri")
          /\ ResultData(selection'.item).ploc
          /\ active /\ active'
          /\ SelectSeq(posted', LAMBDA msg : msg.command = "select") =
                << [command |-> "select", logUri |-> selection'.item.log.uri,
                    id |-> ResultId(selection'.item)] >>]_vars

\* A click on an Item row has posted a 'select'.
C3_Witness == last.op = "click" /\ PostedSelect /\ selection.kind = "item"

\* C4: no message changes the store while the call of an earlier message has
\* changes still to make.
C4_OneAtATime == \A h \in fetching : effectSer <= h.ser

\* C5: once two consecutive spliceLogs messages are both handled, the document
\* of the first precedes the document of the second, and the results are the
\* documents' results in document, run and result order.
C5_DocumentsInArrivalOrder ==
    fetching = {} =>
        /\ \A i, j \in DOMAIN logs : logs[j].ser = logs[i].ser + 1 => i < j
        /\ results(Store) =
              Flat([i \in DOMAIN logs |->
                      Flat([j \in DOMAIN LogRuns(logs[i].uri) |->
                              [k \in DOMAIN LogRuns(logs[i].uri)[j] |->
                                  ResultRef(logs[i], j, k)]])])

\* C6: an inbound 'select' without an id leaves the selection undefined, and one
\* whose id resolves leaves the result's Item row selected, on every tab.
C6_InboundSelectSetsSelection ==
    last.op = "select" =>
        /\ last.id = <<>> => selection = Undefined
        /\ (last.id # <<>> /\ findResult(Store, last.id) # Undefined) =>
              selection = RowItem(findResult(Store, last.id).ref)

\* C7: an inbound 'select' whose id resolves to no result, and no other
\* message, ends in an error; the step changes nothing of the store and posts
\* nothing, so what later messages meet is what they would have met without it.
C7_UnresolvedSelectChangesNothing ==
    [][msgCount' # msgCount =>
          /\ last'.outcome = "error" <=>
                (last'.op = "select" /\ last'.id # <<>>
                    /\ findResult(Store, last'.id) = Undefined)
          /\ last'.outcome = "error" =>
                (UNCHANGED storeVars /\ posted' = <<>>)]_vars

\* An unresolved select has failed while a document was loaded, an Item row
\* selected and the view active.
C7_Witness ==
    /\ last.outcome = "error"
    /\ logs # <<>>
    /\ selection.kind = "item"
    /\ active

\* A filtersRow map flags the value visible: some label flagged true is the
\* value, letter case apart.
FlaggedVisible(record, value) ==
    \E label \in DOMAIN record :
        record[label] /\ ToLowerCase(label) = ToLowerCase(value)

\* The row-level filters let the result through.
PassesRowFilters(r) ==
    /\ FlaggedVisible(filtersRow.Level, Get(ResultData(r), "level", <<>>))
    /\ FlaggedVisible(filtersRow.Baseline, Get(ResultData(r), "baselineState", <<>>))
    /\ FlaggedVisible(filtersRow.Suppression, Get(ResultData(r), "suppression", <<>>))

\* C8: with no keyword tokens a result passes the filter exactly when its
\* level, its baseline state and its suppression state are flagged visible.
C8_NoKeywordsRowFiltersDecide ==
    filterKeywords(Store) = <<>> =>
        \A i \in DOMAIN results(Store) :
            filter(Store, results(Store)[i]) <=> PassesRowFilters(results(Store)[i])

\* The keywords hold no token and 'warning' has been hidden: the error result
\* of document A passes and its warning result does not.
C8_Witness ==
    /\ last.op = "toggleRow"
    /\ filterKeywords(Store) = <<>>
    /\ ~filtersRow.Level[L_Warning]
    /\ filter(Store, ResultRef(logs[1], 1, 1))
    /\ ~filter(Store, ResultRef(logs[1], 1, 2))
    /\ ResultData(ResultRef(logs[1], 1, 1)).level = <<"e","r","r","o","r">>
    /\ ResultData(ResultRef(logs[1], 1, 2)).level = <<"w","a","r","n","i","n","g">>

\* Some keyword token is a substring of the lower-cased text that one of the
\* columns cols renders for the result.
TokenInColumns(cols, r) ==
    \E c \in DOMAIN cols : \E k \in DOMAIN filterKeywords(Store) :
        Includes(ToLowerCase(ColumnToString(Store, cols[c], r)), filterKeywords(Store)[k])

\* C9: with keyword tokens, a result that passes the row-level filters passes
\* the filter exactly when a token is a substring of the text of a visible
\* column; a token found only in a hidden column's text excludes the result.
C9_KeywordsMatchVisibleColumns ==
    filterKeywords(Store) # <<>> =>
        \A i \in DOMAIN results(Store) :
            PassesRowFilters(results(Store)[i]) =>
                (filter(Store, results(Store)[i]) <=>
                    TokenInColumns(visibleColumns(Store, "File"), results(Store)[i]))

\* The flags of b are those of a with none turned on: the same labels, and
\* every flag that b has on a has on.
NoneTurnedOn(a, b) ==
    DOMAIN a = DOMAIN b /\ \A label \in DOMAIN a : b[label] => a[label]

\* From the flags rowA, colA to the flags rowB, colB no flag is turned on.
FlagsOnlyTurnedOff(rowA, colA, rowB, colB) ==
    /\ \A key \in DOMAIN rowA : NoneTurnedOn(rowA[key], rowB[key])
    /\ NoneTurnedOn(colA.Columns, colB.Columns)

\* C10: with the results and the keywords fixed, a step that only turns
\* visibility flags off never lets more results pass the filter, and a step that
\* only turns flags on never lets fewer pass.
C10_FlagsMonotone ==
    [][(logs' = logs /\ keywords' = keywords
           /\ resultStatuses' = resultStatuses /\ dynamicColumns' = dynamicColumns) =>
          /\ FlagsOnlyTurnedOff(filtersRow, filtersColumn, filtersRow', filtersColumn')
                => Len(FilteredOf(Store')) <= Len(Filtered)
          /\ FlagsOnlyTurnedOff(filtersRow', filtersColumn', filtersRow, filtersColumn)
                => Len(FilteredOf(Store')) >= Len(Filtered)]_vars

\* 'error' has just been turned off and fewer results pass than would with it
\* on, while a column flag is off as well.
C10_Witness ==
    /\ last.op = "toggleRow"
    /\ ~filtersRow.Level[L_Error]
    /\ \E name \in DOMAIN filtersColumn.Columns : ~filtersColumn.Columns[name]
    /\ Len(Filtered) < Len(FilteredOf([Store EXCEPT !.filtersRow.Level[L_Error] = TRUE]))

\* A sequence without two equal elements.
NoDuplicates(seq) == \A i, j \in DOMAIN seq : seq[i] = seq[j] => i = j

\* seq is cols with elements appended.
GrownByAppending(cols, seq) ==
    Len(cols) <= Len(seq) /\ SubSeq(seq, 1, Len(cols)) = cols

\* C11: the dynamic column list has no duplicate and no 'tags', only grows by
\* appending, and every name in it has an entry in the column-visibility map:
\* hidden when discovery had to make the entry, unchanged when it was there.
C11_DynamicColumnsDiscovered ==
    [][/\ NoDuplicates(dynamicColumns')
       /\ ~SeqIncludes(dynamicColumns', "tags")
       /\ GrownByAppending(dynamicColumns, dynamicColumns')
       /\ \A i \in DOMAIN dynamicColumns' :
             /\ dynamicColumns'[i] \in DOMAIN filtersColumn'.Columns
             /\ (i > Len(dynamicColumns)
                   /\ dynamicColumns'[i] \notin DOMAIN filtersColumn.Columns)
                  => ~filtersColumn'.Columns[dynamicColumns'[i]]
       /\ dynamicColumns' # dynamicColumns =>
             \A name \in DOMAIN filtersColumn.Columns :
                /\ name \in DOMAIN filtersColumn'.Columns
                /\ filtersColumn'.Columns[name] = filtersColumn.Columns[name]]_vars

\* C12: neither the column list nor the visible-column list of a result table
\* store holds two columns of the same name.
C12_ColumnNamesUnique ==
    /\ NoDuplicates(ColumnNamesOf(columns(Store)))
    /\ \A groupName \in GroupNames :
          NoDuplicates(ColumnNamesOf(visibleColumns(Store, groupName)))

\* C13: the visible columns of a table store never include the column named
\* like the store's grouping.
C13_GroupColumnNotVisible ==
    \A groupName \in GroupNames :
        ~SeqIncludes(ColumnNamesOf(visibleColumns(Store, groupName)), groupName)

\* The index i (from 0) is in the range of seq.
InRange(seq, i) == 0 <= i /\ i < Len(seq)

\* seq with the element at index fromIndex taken out and put back at index
\* toIndex (indices from 0).
Reinserted(seq, fromIndex, toIndex) ==
    LET without == [k \in 1..(Len(seq) - 1) |->
                        IF k <= fromIndex THEN seq[k] ELSE seq[k + 1]]
    IN  [k \in 1..Len(seq) |->
            IF k <= toIndex THEN without[k]
            ELSE IF k = toIndex + 1 THEN seq[fromIndex + 1]
            ELSE without[k - 1]]

\* The visible column names of the store grouped by groupName, in the store s.
VisibleNames(s, groupName) == ColumnNamesOf(visibleColumns(s, groupName))

\* C14: after moveColumn(from, to) with both indices in range, the visible
\* column names are the former ones with the name at from reinserted at to;
\* from = to leaves them as they were.
C14_MoveColumnReorders ==
    [][(/\ last'.op = "moveColumn"
        /\ InRange(VisibleNames(Store, last'.args[1]), last'.args[2])
        /\ InRange(VisibleNames(Store, last'.args[1]), last'.args[3])) =>
          /\ VisibleNames(Store', last'.args[1]) =
                Reinserted(VisibleNames(Store, last'.args[1]), last'.args[2], last'.args[3])
          /\ last'.args[2] = last'.args[3] =>
                VisibleNames(Store', last'.args[1]) = VisibleNames(Store, last'.args[1])]_vars

\* C15: moveColumn(from, to) with from or to out of range changes neither the
\* stored column order nor the visible columns.
C15_MoveColumnOutOfRangeNoOp ==
    [][(/\ last'.op = "moveColumn"
        /\ \/ ~InRange(VisibleNames(Store, last'.args[1]), last'.args[2])
           \/ ~InRange(VisibleNames(Store, last'.args[1]), last'.args[3])) =>
          /\ columnOrder' = columnOrder
          /\ \A groupName \in GroupNames :
                VisibleNames(Store', groupName) = VisibleNames(Store, groupName)]_vars

\* C16: a moveColumn call that changes the column order posts a 'setState'.
C16_MoveColumnPersists ==
    [][(last'.op = "moveColumn" /\ columnOrder' # columnOrder) =>
          \E i \in DOMAIN posted' : posted'[i].command = "setState"]_vars

\* The 'setResultStatus' messages among msgs.
StatusPosts(msgs) == SelectSeq(msgs, LAMBDA msg : msg.command = "setResultStatus")

\* C17: getResultStatus gives 'unchecked' for an identity with no status set;
\* setResultStatus(id, s) makes it give s for id, leaves the others, and posts
\* exactly one 'setResultStatus' with that id and status; loadResultStatuses
\* replaces the whole map and posts none; nothing else changes a status.
C17_ResultStatuses ==
    [][/\ \A resultId \in AskedIds :
             resultId \notin DOMAIN resultStatuses' =>
                getResultStatus(Store', resultId) = "unchecked"
       /\ last'.op = "setResultStatus" =>
             /\ getResultStatus(Store', last'.args[1]) = last'.args[2]
             /\ \A resultId \in AskedIds \ {last'.args[1]} :
                   getResultStatus(Store', resultId) = getResultStatus(Store, resultId)
             /\ StatusPosts(posted') =
                   << [command |-> "setResultStatus", resultId |-> last'.args[1],
                       status |-> last'.args[2]] >>
       /\ last'.op = "loadResultStatuses" =>
             /\ resultStatuses' = (IF last'.args = <<>> THEN <<>> ELSE last'.args[1])
             /\ StatusPosts(posted') = <<>>
       /\ last'.op \notin {"setResultStatus", "loadResultStatuses"} =>
             /\ resultStatuses' = resultStatuses
             /\ StatusPosts(posted') = <<>>]_vars

\* A status has been set after the host's map was loaded: the identity has it,
\* the message is out, and an identity never set is 'unchecked'.
C17_Witness ==
    /\ last.op = "setResultStatus"
    /\ msgCount = MaxMsgs
    /\ getResultStatus(Store, last.args[1]) = last.args[2]
    /\ last.args[2] = "true-positive"
    /\ Len(StatusPosts(posted)) = 1
    /\ \E resultId \in AskedIds :
          resultId \notin DOMAIN resultStatuses /\ getResultStatus(Store, resultId) = "unchecked"
    /\ \E resultId \in DOMAIN resultStatuses : resultId # last.args[1]

\* C18: the row-filter map has an entry for every known category and every
\* known value of it, whatever state blob the store was constructed from.
C18_RowFiltersComplete ==
    \A category \in DOMAIN DefaultFiltersRow :
        /\ category \in DOMAIN filtersRow
        /\ \A value \in DOMAIN DefaultFiltersRow[category] :
              value \in DOMAIN filtersRow[category]

\* C19: a store constructed from the state of the last 'setState' message has
\* the row-filter and column flags of that state, which are those of the store
\* that sent it, and every default column the state lacks with its default
\* flag; discovering a column again leaves its restored flag as it is.
C19_RestoreReproducesFlags ==
    [][/\ last'.op = "restart" =>
             /\ filtersRow' = saved.filtersRow
             /\ filtersRow' = filtersRow
             /\ \A name \in DOMAIN saved.filtersColumn.Columns :
                   /\ name \in DOMAIN filtersColumn'.Columns
                   /\ filtersColumn'.Columns[name] = saved.filtersColumn.Columns[name]
                   /\ filtersColumn'.Columns[name] = filtersColumn.Columns[name]
             /\ \A name \in DOMAIN DefaultFiltersColumn.Columns :
                   /\ name \in DOMAIN filtersColumn'.Columns
                   /\ name \notin DOMAIN saved.filtersColumn.Columns =>
                         filtersColumn'.Columns[name] = DefaultFiltersColumn.Columns[name]
       /\ dynamicColumns' # dynamicColumns =>
             \A name \in DOMAIN filtersColumn.Columns :
                filtersColumn'.Columns[name] = filtersColumn.Columns[name]]_vars

\* The view was opened again after the user had shown the column 'cwe', and
\* the document A has been ingested anew: 'cwe' is discovered and still shown.
C19_Witness ==
    /\ last.op = "spliceLogs"
    /\ logs = << Log("A", MaxMsgs) >>
    /\ dynamicColumns = << "cwe" >>
    /\ filtersColumn.Columns["cwe"]
    /\ saved.filtersColumn.Columns["cwe"]

\* The 'setState' messages among msgs.
StatePosts(msgs) == SelectSeq(msgs, LAMBDA msg : msg.command = "setState")

\* The filter state of the moment.
FilterState == [filtersRow |-> filtersRow, filtersColumn |-> filtersColumn]

\* How many flags of the state b are not in the state a with the same value.
FlagChanges(a, b) ==
    Cardinality({i \in DOMAIN RowFilterKeys :
                      /\ RowFilterKeys[i][1] \in DOMAIN b.filtersRow
                      /\ RowFilterKeys[i][2] \in DOMAIN b.filtersRow[RowFilterKeys[i][1]]
                      /\ ~(/\ RowFilterKeys[i][2] \in DOMAIN a.filtersRow[RowFilterKeys[i][1]]
                           /\ a.filtersRow[RowFilterKeys[i][1]][RowFilterKeys[i][2]]
                                = b.filtersRow[RowFilterKeys[i][1]][RowFilterKeys[i][2]])})
    + Cardinality({name \in DOMAIN b.filtersColumn.Columns :
                      ~(/\ name \in DOMAIN a.filtersColumn.Columns
                        /\ a.filtersColumn.Columns[name] = b.filtersColumn.Columns[name])})

\* The state before the k-th message of a step's 'setState' messages msgs was
\* sent: the one of the message before it, or the one the step began in.
StateBefore(msgs, k) == IF k = 1 THEN FilterState ELSE msgs[k - 1].state

\* C20: every change of a row-filter or column flag posts a 'setState'; each
\* carries the filter state of the moment it is sent, one flag away from the
\* state before; and the last one sent equals the filter state once the step
\* is over. A step that changes no flag posts none.
C20_StatePersisted ==
    [][/\ Len(StatePosts(posted')) = FlagChanges(FilterState, FilterState')
       /\ \A k \in DOMAIN StatePosts(posted') :
             FlagChanges(StateBefore(StatePosts(posted'), k), StatePosts(posted')[k].state) = 1
       /\ StatePosts(posted') # <<>> =>
             /\ StatePosts(posted')[Len(StatePosts(posted'))].state = FilterState'
             /\ saved' = FilterState'
       /\ (StatePosts(posted') = <<>> /\ saved = FilterState) => saved' = FilterState']_vars

\* clearFilters has turned several flags on, one message each, and the host
\* holds the final state.
C20_Witness ==
    /\ last.op = "clearFilters"
    /\ Len(StatePosts(posted)) >= 3
    /\ saved = FilterState
    /\ dynamicColumns # <<>>


\* C21: the base-path notice is transient: once every pending revert delay
\* has elapsed, the banner shows the text the host has set last through
\* setBanner, or the empty banner of the beginning, and not the notice.
C21_NoticeReverts == timers = <<>> => (banner = hostBanner /\ banner # BasePathNotice)


\* What a key does to the selection old, which has the index i (from 0, -1
\* for none) in the rendered rows rws, leaving the selection new.
KeyMoves(rws, i, key, old, new) ==
    /\ (key = "ArrowUp" /\ i > 0) => new = rws[i]
    /\ (key = "ArrowUp" /\ i = 0) => new = old
    /\ (key = "ArrowUp" /\ i < 0) => new = rws[1]
    /\ (key = "ArrowDown" /\ i >= 0 /\ i + 1 < Len(rws)) => new = rws[i + 2]
    /\ (key = "ArrowDown" /\ i = Len(rws) - 1) => new = old
    /\ key = "Escape" => new = Undefined

\* C22: on a non-empty rendered row sequence, ArrowUp selects the row before
\* the selection, leaves it at the first row, and selects the first row when
\* nothing or no row of the sequence is selected; ArrowDown selects the row
\* after the selection and leaves it at the last row; Escape clears the
\* selection; after ArrowUp or ArrowDown the selection is a rendered row.
C22_KeyboardNavigation ==
    [][(last'.op = "key" /\ rows(Store, TabStore(selectedTab)) # <<>>) =>
         /\ KeyMoves(rows(Store, TabStore(selectedTab)),
                     IndexOf(rows(Store, TabStore(selectedTab)), selection) - 1,
                     last'.args[1], selection, selection')
         /\ last'.args[1] \in {"ArrowUp", "ArrowDown"} =>
               SeqIncludes(rows(Store', TabStore(selectedTab')), selection')]_vars

\* ArrowDown has moved the selection from a Group row to the Item row under it.
C22_Witness ==
    /\ last.op = "key"
    /\ last.args = << "ArrowDown" >>
    /\ last.sel = "group"
    /\ selection.kind = "item"
    /\ SeqIncludes(rows(Store, TabStore(selectedTab)), selection)


\* The result r is struck through in the store s just when its identity is in
\* the collection, and is not when removed lists its identity and added does not.
FixedAsSet(s, r, removed, added) ==
    /\ isLineThrough(s, r) <=> JSONStringifyId(ResultId(r)) \in Range(s.resultsFixed)
    /\ (/\ SeqIncludes(removed, JSONStringifyId(ResultId(r)))
        /\ ~SeqIncludes(added, JSONStringifyId(ResultId(r)))) => ~isLineThrough(s, r)

\* C23: the fixed collection behaves as a set under spliceResultsFixed: after
\* a message that lists an identity under removed and not under added the
\* result of that identity is not struck through, whatever was added before;
\* and a result is struck through exactly when its identity is in the collection.
C23_FixedIsASet ==
    [][(last'.op = "spliceResultsFixed" /\ last'.args # <<>>) =>
          \A r \in Range(results(Store')) :
             FixedAsSet(Store', r, last'.args[1], last'.args[2])]_vars


\* C24: when the selection is an Item row, its result belongs to a document
\* of the document list; removing a document never leaves the selection on a
\* result of the removed document, also when other documents remain.
C24_NoDanglingSelection == selection.kind = "item" => SeqIncludes(logs, selection.item.log)

=============================================================================
